---------------------------- MODULE Spec2Model ----------------------------
(***************************************************************************)
(* Model of tonic-lb-k8s (src/src/k8s.rs): the EndpointSlice watch task    *)
(* started by discover(), its reconciliation step process_event() and the  *)
(* address extractor extract_ready_endpoints().                            *)
(*                                                                         *)
(* One watch task runs per discover() call.  A task only yields at its     *)
(* await points (Client::try_default, stream.try_next, tx.send), so each   *)
(* action below is the code between two await points.                      *)
(***************************************************************************)
EXTENDS Integers, Sequences, FiniteSets, TLC

(***************************************************************************)
(* Bounds of the model.                                                    *)
(***************************************************************************)
\* Watch events one task takes from its stream.
MaxEvents == 3
\* Capacity of the bounded mpsc queue the caller hands to discover().
QueueCapacity == 2
\* Watch events a task takes, over all its runs, where the caller restarts it.
MaxRestartEvents == 2
\* Watch events two concurrent tasks take between them.
MaxTwoEvents == 2
\* Watch events a task takes from the source that reports any revision.
MaxExtractEvents == 2
\* Watch events a task takes where the caller's configuration varies.
MaxConfigEvents == 1
\* Watch events a task takes from the source whose port numbers vary.
MaxRangeEvents == 2

(***************************************************************************)
(* Option values.                                                          *)
(***************************************************************************)
None == [some |-> FALSE]
Some(x) == [some |-> TRUE, v |-> x]

(***************************************************************************)
(* Port (k8s.rs 57-62) and its conversions (64-80).                        *)
(***************************************************************************)
PortNumber(n) == [kind |-> "Number", n |-> n, name |-> ""]
PortName(s) == [kind |-> "Name", n |-> 0, name |-> s]

(***************************************************************************)
(* addr.parse::<IpAddr>() (k8s.rs 299).  The literals of the model and the *)
(* address each parses to: version and octets/groups.  Two spellings of    *)
(* the IPv6 loopback parse to one address; "not-an-ip" and the empty       *)
(* string fail.                                                            *)
(***************************************************************************)
ParseIpAddr(s) ==
    CASE s = "10.0.0.1" -> Some(<<4, 10, 0, 0, 1>>)
      [] s = "10.0.0.2" -> Some(<<4, 10, 0, 0, 2>>)
      [] s = "::1" -> Some(<<6, 0, 0, 0, 0, 0, 0, 0, 1>>)
      [] s = "0:0:0:0:0:0:0:1" -> Some(<<6, 0, 0, 0, 0, 0, 0, 0, 1>>)
      [] OTHER -> None

\* SocketAddr::new(ip, port)
SocketAddr(ip, port) == [ip |-> ip, port |-> port]

\* The cast `p as u16` in place of u16::try_from: the value modulo 2^16.
U16TryFromWraps(p) == Some(p % 65536)

\* u16::try_from(p).ok() for an i32 p (k8s.rs 280)
U16TryFrom(p) == IF p >= 0 /\ p <= 65535 THEN Some(p) ELSE None

(***************************************************************************)
(* EndpointSlice values.  An endpoint has addresses and conditions         *)
(* (Option<EndpointConditions>, whose ready is Option<bool>); a port entry *)
(* has name: Option<String> and port: Option<i32>; the slice's ports is    *)
(* Option<Vec<EndpointPort>>.  name is metadata.name, the identity of the  *)
(* slice object whose revisions the watcher reports; the code never reads  *)
(* it.                                                                     *)
(***************************************************************************)
MakeEndpoint(addresses, ready) ==
    [addresses |-> addresses, conditions |-> Some([ready |-> ready])]
BareEndpoint(addresses) == [addresses |-> addresses, conditions |-> None]
MakePort(name, port) == [name |-> name, port |-> Some(port)]
EndpointSlice(name, endpoints, ports) ==
    [name |-> name, endpoints |-> endpoints, ports |-> ports]

GrpcAt(n) == Some(<<MakePort(Some("grpc"), n)>>)

\* The revisions the watch source may report, of two slice objects.
Slices ==
    { EndpointSlice("web-a", <<MakeEndpoint(<<"10.0.0.1", "10.0.0.2">>, Some(TRUE))>>,
                    GrpcAt(9090)),
      EndpointSlice("web-a", <<MakeEndpoint(<<"10.0.0.1">>, Some(TRUE)),
                               MakeEndpoint(<<"10.0.0.2">>, Some(FALSE))>>,
                    Some(<<MakePort(Some("http"), 8080), MakePort(Some("grpc"), 9090)>>)),
      EndpointSlice("web-a", <<MakeEndpoint(<<"10.0.0.1">>, None)>>, GrpcAt(8080)),
      EndpointSlice("web-b", <<BareEndpoint(<<"not-an-ip", "10.0.0.2">>)>>, GrpcAt(9090)),
      EndpointSlice("web-b", <<MakeEndpoint(<<"10.0.0.1">>, Some(TRUE)),
                               MakeEndpoint(<<"::1", "0:0:0:0:0:0:0:1">>, Some(TRUE))>>,
                    None),
      EndpointSlice("web-b", <<>>, GrpcAt(9090)) }

SliceNames == {s.name : s \in Slices}

(***************************************************************************)
(* A wider set of revisions of one object for the extraction rules: every  *)
(* endpoint list below with every port table below.  The endpoint lists    *)
(* mix the three forms of readiness (conditions absent, ready unset, ready *)
(* set) and parsable with unparsable address strings; the port tables are  *)
(* absent, empty, without the name "grpc", with it at different numbers,   *)
(* after another entry, and beside an unnamed entry.                       *)
(***************************************************************************)
EndpointLists ==
    { <<MakeEndpoint(<<"10.0.0.1", "10.0.0.2">>, Some(TRUE))>>,
      <<MakeEndpoint(<<"10.0.0.1">>, None), BareEndpoint(<<"10.0.0.2">>),
        MakeEndpoint(<<"::1">>, Some(FALSE))>>,
      <<MakeEndpoint(<<"not-an-ip", "10.0.0.2">>, Some(TRUE)),
        BareEndpoint(<<"10.0.0.1", "">>)>>,
      <<MakeEndpoint(<<"bad">>, None), MakeEndpoint(<<"10.0.0.1">>, Some(FALSE))>>,
      <<>> }

PortTables ==
    { None,
      Some(<<>>),
      Some(<<MakePort(Some("http"), 8080)>>),
      GrpcAt(9090),
      GrpcAt(8080),
      Some(<<MakePort(Some("http"), 8080), MakePort(Some("grpc"), 9090)>>),
      Some(<<MakePort(None, 9090), MakePort(Some("grpc"), 8080)>>) }

WideSlices ==
    {EndpointSlice("web-a", e, p) : e \in EndpointLists, p \in PortTables}

\* watcher::Event<EndpointSlice> (k8s.rs 234-266)
ApplyEv(s) == [tag |-> "Apply", slice |-> s]
InitApplyEv(s) == [tag |-> "InitApply", slice |-> s]
DeleteEv(s) == [tag |-> "Delete", slice |-> s]
InitEv == [tag |-> "Init"]
InitDoneEv == [tag |-> "InitDone"]
Events ==
    {ApplyEv(s) : s \in Slices} \cup {InitApplyEv(s) : s \in Slices}
        \cup {DeleteEv(s) : s \in Slices} \cup {InitEv, InitDoneEv}

(***************************************************************************)
(* Revisions of one object whose port table has the entry "grpc" with no   *)
(* number, with a negative number, with the least and greatest u16, with a *)
(* number in between, and with numbers above 65535, one of them equal to   *)
(* 8080 modulo 2^16.  EndpointPort.port is Option<i32>.                    *)
(***************************************************************************)
PortEntry(name, port) == [name |-> name, port |-> port]

RangePortNumbers == {-1, 0, 8080, 65535, 65536, 73616}

RangeTables ==
    {Some(<<PortEntry(Some("grpc"), None)>>)}
        \cup {GrpcAt(n) : n \in RangePortNumbers}

RangeEndpointLists ==
    { <<MakeEndpoint(<<"10.0.0.1", "10.0.0.2">>, Some(TRUE))>>,
      <<MakeEndpoint(<<"not-an-ip", "10.0.0.2">>, Some(TRUE)),
        MakeEndpoint(<<"10.0.0.1">>, Some(FALSE))>> }

RangeSlices ==
    {EndpointSlice("web-a", e, p) : e \in RangeEndpointLists, p \in RangeTables}

RangeEvents == {ApplyEv(s) : s \in RangeSlices} \cup {DeleteEv(s) : s \in RangeSlices}

\* The events that carry a revision of WideSlices
WideEvents == {ApplyEv(s) : s \in WideSlices} \cup {DeleteEv(s) : s \in WideSlices}

\* The values a caller passes as `port: impl Into<Port>`: a u16, a &str or a
\* String (k8s.rs 64-80).
U16(n) == [ty |-> "u16", n |-> n, s |-> ""]
Str(s) == [ty |-> "&str", n |-> 0, s |-> s]
StringOf(s) == [ty |-> "String", n |-> 0, s |-> s]

\* port.into(): From<u16>, From<&str>, From<String> for Port
PortFrom(p) == IF p.ty = "u16" THEN PortNumber(p.n) ELSE PortName(p.s)

\* The port arguments of the watches of the model
PortArgs == {U16(50051), Str("grpc")}

\* The port, service-name and namespace arguments where the configuration
\* varies
PortArgsWide ==
    {U16(50051), U16(65535), Str("grpc"), StringOf("grpc"), StringOf("http")}
ServiceNames == {"web", "api"}
Namespaces == {"default", "prod"}

\* The port specifiers a DiscoveryConfig may carry.
Ports == {PortFrom(p) : p \in PortArgs}

(***************************************************************************)
(* extract_ready_endpoints (k8s.rs 271-306).                               *)
(***************************************************************************)
\* ports.iter().find(|p| p.name.as_deref() == Some(name)): the first match
RECURSIVE FindPort(_, _)
FindPort(ports, name) ==
    IF ports = <<>> THEN None
    ELSE IF Head(ports).name = Some(name) THEN Some(Head(ports))
    ELSE FindPort(Tail(ports), name)

\* A named port resolved to the first entry of the table, whatever its name.
ResolvePortFirstEntry(slice, port) ==
    IF port.kind = "Number" THEN Some(port.n)
    ELSE IF ~slice.ports.some THEN None
    ELSE IF slice.ports.v = <<>> \/ ~FindPort(slice.ports.v, port.name).some THEN None
    ELSE IF ~Head(slice.ports.v).port.some THEN None
    ELSE U16TryFrom(Head(slice.ports.v).port.v)

\* A named port that is not found resolved to port 0 instead of to nothing.
ResolvePortMissIsZero(slice, port) ==
    IF port.kind = "Number" THEN Some(port.n)
    ELSE IF ~slice.ports.some THEN Some(0)
    ELSE LET found == FindPort(slice.ports.v, port.name)
         IN  IF ~found.some THEN Some(0)
             ELSE IF ~found.v.port.some THEN None
             ELSE U16TryFrom(found.v.port.v)

\* k8s.rs 273-282
ResolvePort(slice, port) ==
    IF port.kind = "Number" THEN Some(port.n)
    ELSE IF ~slice.ports.some THEN None
    ELSE LET found == FindPort(slice.ports.v, port.name)
         IN  IF ~found.some THEN None
             ELSE IF ~found.v.port.some THEN None
             ELSE U16TryFrom(found.v.port.v)

\* Readiness with unwrap_or(false): an entry without a readiness value is
\* not ready.
IsReadyDefaultFalse(ep) ==
    IF ~ep.conditions.some THEN FALSE
    ELSE IF ~ep.conditions.v.ready.some THEN FALSE
    ELSE ep.conditions.v.ready.v

\* k8s.rs 292: conditions.and_then(|c| c.ready).unwrap_or(true)
IsReady(ep) ==
    IF ~ep.conditions.some THEN TRUE
    ELSE IF ~ep.conditions.v.ready.some THEN TRUE
    ELSE ep.conditions.v.ready.v

\* The inner loop leaving an entry at its first unparsable address.
RECURSIVE InsertAddressesStopAtInvalid(_, _, _)
InsertAddressesStopAtInvalid(addresses, port_number, addrs) ==
    IF addresses = <<>> THEN addrs
    ELSE LET ip == ParseIpAddr(Head(addresses))
         IN  IF ip.some
             THEN InsertAddressesStopAtInvalid(Tail(addresses), port_number,
                      addrs \cup {SocketAddr(ip.v, port_number)})
             ELSE addrs

\* k8s.rs 298-302: the inner loop over one endpoint's addresses
RECURSIVE InsertAddresses(_, _, _)
InsertAddresses(addresses, port_number, addrs) ==
    IF addresses = <<>> THEN addrs
    ELSE LET ip == ParseIpAddr(Head(addresses))
         IN  InsertAddresses(Tail(addresses), port_number,
                 IF ip.some THEN addrs \cup {SocketAddr(ip.v, port_number)}
                 ELSE addrs)

\* k8s.rs 290-303: the loop over the slice's endpoints
RECURSIVE CollectEndpoints(_, _, _)
CollectEndpoints(endpoints, port_number, addrs) ==
    IF endpoints = <<>> THEN addrs
    ELSE CollectEndpoints(Tail(endpoints), port_number,
             IF IsReady(Head(endpoints))
             THEN InsertAddresses(Head(endpoints).addresses, port_number, addrs)
             ELSE addrs)

extract_ready_endpoints(slice, port) ==
    LET port_number == ResolvePort(slice, port)
    IN  IF ~port_number.some THEN {}
        ELSE CollectEndpoints(slice.endpoints, port_number.v, {})

(***************************************************************************)
(* process_event (k8s.rs 229-268).  `order` is the order in which the      *)
(* HashSet returned by extract_ready_endpoints is iterated: any            *)
(* enumeration of it.                                                      *)
(***************************************************************************)
Insert(addr) == [kind |-> "Insert", addr |-> addr]
Remove(addr) == [kind |-> "Remove", addr |-> addr]

\* The iteration orders of a HashSet
Orders(S) ==
    {o \in [1..Cardinality(S) -> S] : \A a \in S : \E i \in DOMAIN o : o[i] = a}

\* ApplyLoop with the result of known.insert ignored: every address is pushed.
RECURSIVE ApplyLoopNoCheck(_, _, _)
ApplyLoopNoCheck(order, known, actions) ==
    IF order = <<>> THEN [known |-> known, actions |-> actions]
    ELSE ApplyLoopNoCheck(Tail(order), known \cup {Head(order)},
                          Append(actions, Insert(Head(order))))

\* ApplyLoop testing known.contains instead of known.insert: the Insert is
\* pushed and the address is not added to known.
RECURSIVE ApplyLoopNoInsert(_, _, _)
ApplyLoopNoInsert(order, known, actions) ==
    IF order = <<>> THEN [known |-> known, actions |-> actions]
    ELSE IF Head(order) \notin known
         THEN ApplyLoopNoInsert(Tail(order), known,
                                Append(actions, Insert(Head(order))))
         ELSE ApplyLoopNoInsert(Tail(order), known, actions)

\* k8s.rs 239-244
RECURSIVE ApplyLoop(_, _, _)
ApplyLoop(order, known, actions) ==
    IF order = <<>> THEN [known |-> known, actions |-> actions]
    ELSE LET addr == Head(order)
         IN  IF addr \notin known
             THEN ApplyLoop(Tail(order), known \cup {addr}, Append(actions, Insert(addr)))
             ELSE ApplyLoop(Tail(order), known, actions)

\* DeleteLoop with the result of known.remove ignored: every address is pushed.
RECURSIVE DeleteLoopNoCheck(_, _, _)
DeleteLoopNoCheck(order, known, actions) ==
    IF order = <<>> THEN [known |-> known, actions |-> actions]
    ELSE DeleteLoopNoCheck(Tail(order), known \ {Head(order)},
                           Append(actions, Remove(Head(order))))

\* DeleteLoop testing known.contains instead of known.remove: the Remove is
\* pushed and the address stays in known.
RECURSIVE DeleteLoopKeepsKnown(_, _, _)
DeleteLoopKeepsKnown(order, known, actions) ==
    IF order = <<>> THEN [known |-> known, actions |-> actions]
    ELSE IF Head(order) \in known
         THEN DeleteLoopKeepsKnown(Tail(order), known,
                                   Append(actions, Remove(Head(order))))
         ELSE DeleteLoopKeepsKnown(Tail(order), known, actions)

\* k8s.rs 253-258
RECURSIVE DeleteLoop(_, _, _)
DeleteLoop(order, known, actions) ==
    IF order = <<>> THEN [known |-> known, actions |-> actions]
    ELSE LET addr == Head(order)
         IN  IF addr \in known
             THEN DeleteLoop(Tail(order), known \ {addr}, Append(actions, Remove(addr)))
             ELSE DeleteLoop(Tail(order), known, actions)

\* A set as a sequence, in some order
RECURSIVE SeqOfSet(_)
SeqOfSet(S) ==
    IF S = {} THEN <<>>
    ELSE LET x == CHOOSE y \in S : TRUE IN <<x>> \o SeqOfSet(S \ {x})

\* process_event whose Apply arm replaces the known set by the revision's
\* addresses, removing those the revision does not list.
process_event_ApplyReconciles(event, known, order) ==
    CASE event.tag \in {"Apply", "InitApply"} ->
             LET stale == known \ {order[i] : i \in DOMAIN order}
                 d == DeleteLoop(SeqOfSet(stale), known, <<>>)
             IN  ApplyLoop(order, d.known, d.actions)
      [] event.tag = "Delete" -> DeleteLoop(order, known, <<>>)
      [] OTHER -> [known |-> known, actions |-> <<>>]

\* process_event whose Delete arm removes every known address, whatever
\* the deleted revision lists.
process_event_DeleteClearsKnown(event, known, order) ==
    CASE event.tag \in {"Apply", "InitApply"} -> ApplyLoop(order, known, <<>>)
      [] event.tag = "Delete" -> DeleteLoop(SeqOfSet(known), known, <<>>)
      [] OTHER -> [known |-> known, actions |-> <<>>]

\* process_event with InitApply matched by the no-op arm.
process_event_InitApplyIgnored(event, known, order) ==
    CASE event.tag = "Apply" -> ApplyLoop(order, known, <<>>)
      [] event.tag = "Delete" -> DeleteLoop(order, known, <<>>)
      [] OTHER -> [known |-> known, actions |-> <<>>]

\* process_event whose Init arm resets the known set, removing every address.
process_event_InitResets(event, known, order) ==
    CASE event.tag \in {"Apply", "InitApply"} -> ApplyLoop(order, known, <<>>)
      [] event.tag = "Delete" -> DeleteLoop(order, known, <<>>)
      [] event.tag = "Init" -> DeleteLoop(SeqOfSet(known), known, <<>>)
      [] OTHER -> [known |-> known, actions |-> <<>>]

process_event(event, known, order) ==
    CASE event.tag \in {"Apply", "InitApply"} -> ApplyLoop(order, known, <<>>)
      [] event.tag = "Delete" -> DeleteLoop(order, known, <<>>)
      [] OTHER -> [known |-> known, actions |-> <<>>]

\* The set process_event iterates for an event: `current` (236), `removed` (250)
Extracted(event, port) ==
    IF event.tag \in {"Apply", "InitApply", "Delete"}
    THEN extract_ready_endpoints(event.slice, port)
    ELSE {}

(***************************************************************************)
(* DiscoveryConfig (k8s.rs 84-116).                                        *)
(***************************************************************************)
DiscoveryConfigNew(service_name, port) ==
    [service_name |-> service_name, namespace |-> None, port |-> port]

\* .namespace(ns) building a fresh configuration for the service `ns`.
DiscoveryConfigNamespaceAsName(cfg, ns) ==
    [service_name |-> ns, namespace |-> Some(ns), port |-> cfg.port]

\* DiscoveryConfig::namespace (k8s.rs 112-115)
DiscoveryConfigNamespace(cfg, ns) == [cfg EXCEPT !.namespace = Some(ns)]

\* The arguments of a DiscoveryConfig::new call, no .namespace call made
NewArgs(service_name, port) ==
    [service_name |-> service_name, port |-> port, namespace |-> None]

(***************************************************************************)
(* Change messages (k8s.rs 198-201).  Build is the caller's build          *)
(* function, here the one of the crate's example: an Endpoint for the      *)
(* address's URI.                                                          *)
(***************************************************************************)
Build(addr) == [uri |-> <<"http", addr>>]
ChangeInsert(key, endpoint) == [kind |-> "Insert", key |-> key, endpoint |-> endpoint]
ChangeRemove(key) == [kind |-> "Remove", key |-> key]

ToChange(action) ==
    IF action.kind = "Insert" THEN ChangeInsert(action.addr, Build(action.addr))
    ELSE ChangeRemove(action.addr)

(***************************************************************************)
(* State.  Every variable is a function of the watch: each discover() call *)
(* has its own task, known set and queue.                                  *)
(***************************************************************************)
Watches == {1, 2}

VARIABLES
    args,       \* the arguments the caller gave DiscoveryConfig::new and
                \* .namespace (history)
    config,     \* the DiscoveryConfig the caller built, moved into the task
    pc,         \* "idle": no task; "connect", "next", "send": the await point
                \* the task is suspended at; "returned"; "cancelled"
    result,     \* what discovery_loop returned: "none", "Ok", "Err"
    exit,       \* the return taken: "none", "client", "stream_err",
                \* "stream_end", "closed"
    known,      \* known: HashSet<SocketAddr>
    actions,    \* the actions of the current batch the for loop has not reached
    change,     \* the Change handed to the tx.send() the task awaits
    queue,      \* the messages buffered in the mpsc queue
    rxClosed,   \* the queue's receiving end is gone
    \* history, read by the properties only
    sent,       \* every Change the queue accepted, in order
    produced,   \* the batches process_event returned, concatenated
    built,      \* the addresses build was called with, in order
    nEvents,    \* events taken from the stream
    last,       \* the last event taken: the event, the one before it, known
                \* and the number of messages sent before it, and the batch
                \* returned for it
    live,       \* per slice object, the revision of its latest event, None
                \* once deleted or while not observed
    orderly,    \* every Delete taken so far was of an object live at the time
    insertedBy  \* per address, the slice object whose event last inserted it

vars == <<args, config, pc, result, exit, known, actions, change, queue, rxClosed,
          sent, produced, built, nEvents, last, live, orderly, insertedBy>>

taskVars == <<args, config, pc, result, exit, known, actions, change,
              produced, built, nEvents, last, live, orderly, insertedBy>>

NoLast == [event |-> None, prev |-> None, known |-> {}, actions |-> <<>>, nsent |-> 0]

\* The state of the tasks and queues when discover() has been called for the
\* watches of `spawned`
InitTask(spawned) ==
    /\ pc = [w \in Watches |-> IF w \in spawned THEN "connect" ELSE "idle"]
    /\ result = [w \in Watches |-> "none"]
    /\ exit = [w \in Watches |-> "none"]
    /\ known = [w \in Watches |-> {}]
    /\ actions = [w \in Watches |-> <<>>]
    /\ change = [w \in Watches |-> None]
    /\ queue = [w \in Watches |-> <<>>]
    /\ rxClosed = [w \in Watches |-> FALSE]
    /\ sent = [w \in Watches |-> <<>>]
    /\ produced = [w \in Watches |-> <<>>]
    /\ built = [w \in Watches |-> <<>>]
    /\ nEvents = [w \in Watches |-> 0]
    /\ last = [w \in Watches |-> NoLast]
    /\ live = [w \in Watches |-> [n \in SliceNames |-> None]]
    /\ orderly = [w \in Watches |-> TRUE]
    /\ insertedBy = [w \in Watches |-> [a \in {} |-> ""]]

InitWatch(spawned) ==
    /\ args \in {[w \in Watches |-> NewArgs("web", p[w])] :
                     p \in [Watches -> PortArgs]}
    /\ \A w \in Watches \ spawned : args[w].port = U16(50051)
    /\ config = [w \in Watches |->
                    DiscoveryConfigNew(args[w].service_name, PortFrom(args[w].port))]
    /\ InitTask(spawned)

\* One discover() call (k8s.rs 155-164): watch 1's task has been spawned.
Init == InitWatch({1})

(***************************************************************************)
(* discovery_loop (k8s.rs 167-217).                                        *)
(***************************************************************************)
\* The live map after an event
LiveAfter(lv, event) ==
    CASE event.tag \in {"Apply", "InitApply"} ->
             [lv EXCEPT ![event.slice.name] = Some(event.slice)]
      [] event.tag = "Delete" -> [lv EXCEPT ![event.slice.name] = None]
      [] OTHER -> lv

\* The inserting object of each address after an event and its batch
InsertedAfter(ib, event, acts) ==
    LET new == {acts[i].addr : i \in {j \in DOMAIN acts : acts[j].kind = "Insert"}}
    IN  [a \in DOMAIN ib \cup new |-> IF a \in new THEN event.slice.name ELSE ib[a]]

\* The for loop taking the batch from its end.
ForLoopFromEnd(w, rest) ==
    IF rest = <<>>
    THEN /\ pc' = [pc EXCEPT ![w] = "next"]
         /\ actions' = [actions EXCEPT ![w] = <<>>]
         /\ change' = [change EXCEPT ![w] = None]
         /\ built' = built
    ELSE /\ pc' = [pc EXCEPT ![w] = "send"]
         /\ actions' = [actions EXCEPT ![w] = SubSeq(rest, 1, Len(rest) - 1)]
         /\ change' = [change EXCEPT ![w] = Some(ToChange(rest[Len(rest)]))]
         /\ built' = IF rest[Len(rest)].kind = "Insert"
                     THEN [built EXCEPT ![w] = Append(@, rest[Len(rest)].addr)]
                     ELSE built

\* The for loop leaving the batch after its first send.
ForLoopBreaksAfterFirst(w, rest) ==
    IF rest = <<>>
    THEN /\ pc' = [pc EXCEPT ![w] = "next"]
         /\ actions' = [actions EXCEPT ![w] = <<>>]
         /\ change' = [change EXCEPT ![w] = None]
         /\ built' = built
    ELSE /\ pc' = [pc EXCEPT ![w] = "send"]
         /\ actions' = [actions EXCEPT ![w] = <<>>]
         /\ change' = [change EXCEPT ![w] = Some(ToChange(Head(rest)))]
         /\ built' = IF Head(rest).kind = "Insert"
                     THEN [built EXCEPT ![w] = Append(@, Head(rest).addr)]
                     ELSE built

\* The for loop calling build for every action before matching on its kind.
ForLoopBuildsAlways(w, rest) ==
    IF rest = <<>>
    THEN /\ pc' = [pc EXCEPT ![w] = "next"]
         /\ actions' = [actions EXCEPT ![w] = <<>>]
         /\ change' = [change EXCEPT ![w] = None]
         /\ built' = built
    ELSE /\ pc' = [pc EXCEPT ![w] = "send"]
         /\ actions' = [actions EXCEPT ![w] = Tail(rest)]
         /\ change' = [change EXCEPT ![w] = Some(ToChange(Head(rest)))]
         /\ built' = [built EXCEPT ![w] = Append(@, Head(rest).addr)]

\* k8s.rs 197-203: the for loop takes the next action, builds its Change and
\* awaits the send; with no action left it falls through to try_next (194).
ForLoop(w, rest) ==
    IF rest = <<>>
    THEN /\ pc' = [pc EXCEPT ![w] = "next"]
         /\ actions' = [actions EXCEPT ![w] = <<>>]
         /\ change' = [change EXCEPT ![w] = None]
         /\ built' = built
    ELSE /\ pc' = [pc EXCEPT ![w] = "send"]
         /\ actions' = [actions EXCEPT ![w] = Tail(rest)]
         /\ change' = [change EXCEPT ![w] = Some(ToChange(Head(rest)))]
         /\ built' = IF Head(rest).kind = "Insert"
                     THEN [built EXCEPT ![w] = Append(@, Head(rest).addr)]
                     ELSE built

\* Connect with the known set kept outside the task: a new run finds the
\* old one.
ConnectKeepsKnown(w) ==
    /\ pc[w] = "connect"
    /\ pc' = [pc EXCEPT ![w] = "next"]
    /\ UNCHANGED <<args, config, result, exit, known, actions, change, queue, rxClosed,
                   sent, produced, built, nEvents, last, live, orderly, insertedBy>>

\* k8s.rs 175: Client::try_default().await? succeeds; 184: known is created
Connect(w) ==
    /\ pc[w] = "connect"
    /\ pc' = [pc EXCEPT ![w] = "next"]
    /\ known' = [known EXCEPT ![w] = {}]
    /\ UNCHANGED <<args, config, result, exit, actions, change, queue, rxClosed,
                   sent, produced, built, nEvents, last, live, orderly, insertedBy>>

\* k8s.rs 175: Client::try_default().await? fails
ConnectFail(w) ==
    /\ pc[w] = "connect"
    /\ pc' = [pc EXCEPT ![w] = "returned"]
    /\ result' = [result EXCEPT ![w] = "Err"]
    /\ exit' = [exit EXCEPT ![w] = "client"]
    /\ UNCHANGED <<args, config, known, actions, change, queue, rxClosed,
                   sent, produced, built, nEvents, last, live, orderly, insertedBy>>

\* k8s.rs 194-203: try_next yields Some(event), one of `events`
\* One HashSet shared by every watch task instead of one per task.
NextEventFromSharedKnown(w, events) ==
    /\ pc[w] = "next"
    /\ \E event \in events :
         \E order \in Orders(Extracted(event, config[w].port)) :
            LET r == process_event(event, known[w], order)
            IN  /\ known' = [v \in Watches |-> r.known]
                /\ produced' = [produced EXCEPT ![w] = @ \o r.actions]
                /\ last' = [last EXCEPT ![w] =
                               [event |-> Some(event), prev |-> last[w].event,
                                known |-> known[w], actions |-> r.actions,
                                nsent |-> Len(sent[w])]]
                /\ live' = [live EXCEPT ![w] = LiveAfter(@, event)]
                /\ orderly' = [orderly EXCEPT ![w] =
                                  @ /\ (event.tag = "Delete" =>
                                            live[w][event.slice.name].some)]
                /\ insertedBy' = [insertedBy EXCEPT ![w] =
                                     InsertedAfter(@, event, r.actions)]
                /\ ForLoop(w, r.actions)
    /\ nEvents' = [nEvents EXCEPT ![w] = @ + 1]
    /\ UNCHANGED <<args, config, result, exit, queue, rxClosed, sent>>

NextEventFrom(w, events) ==
    /\ pc[w] = "next"
    /\ \E event \in events :
         \E order \in Orders(Extracted(event, config[w].port)) :
            LET r == process_event(event, known[w], order)
            IN  /\ known' = [known EXCEPT ![w] = r.known]
                /\ produced' = [produced EXCEPT ![w] = @ \o r.actions]
                /\ last' = [last EXCEPT ![w] =
                               [event |-> Some(event), prev |-> last[w].event,
                                known |-> known[w], actions |-> r.actions,
                                nsent |-> Len(sent[w])]]
                /\ live' = [live EXCEPT ![w] = LiveAfter(@, event)]
                /\ orderly' = [orderly EXCEPT ![w] =
                                  @ /\ (event.tag = "Delete" =>
                                            live[w][event.slice.name].some)]
                /\ insertedBy' = [insertedBy EXCEPT ![w] =
                                     InsertedAfter(@, event, r.actions)]
                /\ ForLoop(w, r.actions)
    /\ nEvents' = [nEvents EXCEPT ![w] = @ + 1]
    /\ UNCHANGED <<args, config, result, exit, queue, rxClosed, sent>>

\* The watch source of the model: at most MaxEvents events, any of Events
NextEvent(w) ==
    /\ nEvents[w] < MaxEvents
    /\ NextEventFrom(w, Events)

\* The task sending a Remove for every known address before it returns.
StreamEndCompensates(w) ==
    /\ pc[w] = "next"
    /\ pc' = [pc EXCEPT ![w] = "returned"]
    /\ result' = [result EXCEPT ![w] = "Ok"]
    /\ exit' = [exit EXCEPT ![w] = "stream_end"]
    /\ LET removes == [i \in 1..Cardinality(known[w]) |->
                          ChangeRemove(SeqOfSet(known[w])[i])]
       IN  /\ queue' = [queue EXCEPT ![w] = @ \o removes]
           /\ sent' = [sent EXCEPT ![w] = @ \o removes]
    /\ UNCHANGED <<args, config, known, actions, change, rxClosed,
                   produced, built, nEvents, last, live, orderly, insertedBy>>

\* The end of the stream reported to the caller as a failure.
StreamEndAsError(w) ==
    /\ pc[w] = "next"
    /\ pc' = [pc EXCEPT ![w] = "returned"]
    /\ result' = [result EXCEPT ![w] = "Err"]
    /\ exit' = [exit EXCEPT ![w] = "stream_end"]
    /\ UNCHANGED <<args, config, known, actions, change, queue, rxClosed,
                   sent, produced, built, nEvents, last, live, orderly, insertedBy>>

\* k8s.rs 194, 216: try_next yields None
StreamEnd(w) ==
    /\ pc[w] = "next"
    /\ pc' = [pc EXCEPT ![w] = "returned"]
    /\ result' = [result EXCEPT ![w] = "Ok"]
    /\ exit' = [exit EXCEPT ![w] = "stream_end"]
    /\ UNCHANGED <<args, config, known, actions, change, queue, rxClosed,
                   sent, produced, built, nEvents, last, live, orderly, insertedBy>>

\* The error logged and the loop going on to the next event.
StreamErrorContinues(w) ==
    /\ pc[w] = "next"
    /\ exit[w] # "stream_err"
    /\ exit' = [exit EXCEPT ![w] = "stream_err"]
    /\ UNCHANGED <<args, config, pc, result, known, actions, change, queue, rxClosed,
                   sent, produced, built, nEvents, last, live, orderly, insertedBy>>

\* k8s.rs 194: try_next yields Err, which `?` returns
StreamError(w) ==
    /\ pc[w] = "next"
    /\ pc' = [pc EXCEPT ![w] = "returned"]
    /\ result' = [result EXCEPT ![w] = "Err"]
    /\ exit' = [exit EXCEPT ![w] = "stream_err"]
    /\ UNCHANGED <<args, config, known, actions, change, queue, rxClosed,
                   sent, produced, built, nEvents, last, live, orderly, insertedBy>>

\* A send after which the loop does not advance: the same Change is offered
\* again.
SendOkNoAdvance(w) ==
    /\ pc[w] = "send"
    /\ ~rxClosed[w]
    /\ Len(queue[w]) < QueueCapacity
    /\ queue' = [queue EXCEPT ![w] = Append(@, change[w].v)]
    /\ sent' = [sent EXCEPT ![w] =
                   IF Len(@) < Len(produced[w]) THEN Append(@, change[w].v) ELSE @]
    /\ UNCHANGED <<args, config, pc, result, exit, known, actions, change, rxClosed,
                   produced, built, nEvents, last, live, orderly, insertedBy>>

\* A send that enqueues the message twice when the queue has room for two.
SendOkTwice(w) ==
    /\ pc[w] = "send"
    /\ ~rxClosed[w]
    /\ Len(queue[w]) < QueueCapacity
    /\ LET msgs == IF Len(queue[w]) + 2 <= QueueCapacity
                   THEN <<change[w].v, change[w].v>> ELSE <<change[w].v>>
       IN  /\ queue' = [queue EXCEPT ![w] = @ \o msgs]
           /\ sent' = [sent EXCEPT ![w] = @ \o msgs]
    /\ ForLoop(w, actions[w])
    /\ UNCHANGED <<args, config, result, exit, known, rxClosed, produced, nEvents,
                   last, live, orderly, insertedBy>>

\* tx.try_send in place of tx.send().await: a full queue drops the message.
SendOkTrySend(w) ==
    /\ pc[w] = "send"
    /\ ~rxClosed[w]
    /\ queue' = [queue EXCEPT ![w] =
                    IF Len(@) < QueueCapacity THEN Append(@, change[w].v) ELSE @]
    /\ sent' = [sent EXCEPT ![w] =
                   IF Len(queue[w]) < QueueCapacity THEN Append(@, change[w].v) ELSE @]
    /\ ForLoop(w, actions[w])
    /\ UNCHANGED <<args, config, result, exit, known, rxClosed, produced, nEvents,
                   last, live, orderly, insertedBy>>

\* k8s.rs 203: the queue has room and a receiver: the send completes
SendOk(w) ==
    /\ pc[w] = "send"
    /\ ~rxClosed[w]
    /\ Len(queue[w]) < QueueCapacity
    /\ queue' = [queue EXCEPT ![w] = Append(@, change[w].v)]
    /\ sent' = [sent EXCEPT ![w] = Append(@, change[w].v)]
    /\ ForLoop(w, actions[w])
    /\ UNCHANGED <<args, config, result, exit, known, rxClosed, produced, nEvents,
                   last, live, orderly, insertedBy>>

\* The send's error ignored: the loop goes on.
SendClosedIgnored(w) ==
    /\ pc[w] = "send"
    /\ rxClosed[w]
    /\ ForLoop(w, actions[w])
    /\ UNCHANGED <<args, config, result, exit, known, queue, rxClosed,
                   sent, produced, nEvents, last, live, orderly, insertedBy>>

\* k8s.rs 203-206: the receiver is gone: send fails, the task returns Ok(()).
\* The variables keep the values the task's locals had when it returned.
SendClosed(w) ==
    /\ pc[w] = "send"
    /\ rxClosed[w]
    /\ pc' = [pc EXCEPT ![w] = "returned"]
    /\ result' = [result EXCEPT ![w] = "Ok"]
    /\ exit' = [exit EXCEPT ![w] = "closed"]
    /\ UNCHANGED <<args, config, known, actions, change, queue, rxClosed,
                   sent, produced, built, nEvents, last, live, orderly, insertedBy>>

\* k8s.rs 159: the spawned task is dropped at an await point (runtime shutdown)
Cancel(w) ==
    /\ pc[w] \in {"connect", "next", "send"}
    /\ pc' = [pc EXCEPT ![w] = "cancelled"]
    /\ UNCHANGED <<args, config, result, exit, known, actions, change, queue, rxClosed,
                   sent, produced, built, nEvents, last, live, orderly, insertedBy>>

(***************************************************************************)
(* The consumer: the receiving end of the queue passed to discover().      *)
(***************************************************************************)
ConsumerRecv(w) ==
    /\ queue[w] # <<>>
    /\ queue' = [queue EXCEPT ![w] = Tail(@)]
    /\ UNCHANGED <<taskVars, rxClosed, sent>>

ConsumerClose(w) ==
    /\ pc[w] # "idle"
    /\ ~rxClosed[w]
    /\ rxClosed' = [rxClosed EXCEPT ![w] = TRUE]
    /\ UNCHANGED <<taskVars, queue, sent>>

Next ==
    \E w \in Watches :
        \/ Connect(w)
        \/ ConnectFail(w)
        \/ NextEvent(w)
        \/ StreamEnd(w)
        \/ StreamError(w)
        \/ SendOk(w)
        \/ SendClosed(w)
        \/ Cancel(w)
        \/ ConsumerRecv(w)
        \/ ConsumerClose(w)

Spec == Init /\ [][Next]_vars

(***************************************************************************)
(* Restart.  discover() never restarts a failed watch; the caller may call *)
(* it again (k8s.rs 155-164), which runs discovery_loop anew.  The history *)
(* variables go on; known keeps its last value until line 184 creates the  *)
(* new task's set.                                                         *)
(***************************************************************************)
Respawn(w) ==
    /\ pc[w] = "returned"
    /\ exit[w] = "stream_err"
    /\ pc' = [pc EXCEPT ![w] = "connect"]
    /\ result' = [result EXCEPT ![w] = "none"]
    /\ exit' = [exit EXCEPT ![w] = "none"]
    /\ UNCHANGED <<args, config, known, actions, change, queue, rxClosed,
                   sent, produced, built, nEvents, last, live, orderly, insertedBy>>

\* The watch source where the caller restarts the watch
NextEventRestart(w) ==
    /\ nEvents[w] < MaxRestartEvents
    /\ NextEventFrom(w, Events)

NextRestart ==
    \E w \in Watches :
        \/ Connect(w)
        \/ ConnectFail(w)
        \/ NextEventRestart(w)
        \/ StreamEnd(w)
        \/ StreamError(w)
        \/ SendOk(w)
        \/ SendClosed(w)
        \/ Cancel(w)
        \/ ConsumerRecv(w)
        \/ ConsumerClose(w)
        \/ Respawn(w)

SpecRestart == Init /\ [][NextRestart]_vars

(***************************************************************************)
(* The orderly run: the client connects, the watcher stream yields finitely*)
(* many events and then None without an error, the receiver is never       *)
(* dropped and the task is never aborted.  The runtime polls a task that   *)
(* can make progress, the watcher stream resolves every try_next, and the  *)
(* consumer keeps receiving.                                               *)
(***************************************************************************)
NextOrderly ==
    \E w \in Watches :
        \/ Connect(w)
        \/ NextEvent(w)
        \/ StreamEnd(w)
        \/ SendOk(w)
        \/ ConsumerRecv(w)

FairOrderly ==
    \A w \in Watches :
        /\ WF_vars(Connect(w))
        /\ WF_vars(NextEvent(w) \/ StreamEnd(w))
        /\ WF_vars(SendOk(w))
        /\ WF_vars(ConsumerRecv(w))

SpecOrderly == Init /\ [][NextOrderly]_vars /\ FairOrderly

(***************************************************************************)
(* Two discover() calls: each spawns its own task with its own config, its *)
(* own watcher stream, its own `known` (a local of discovery_loop) and its *)
(* own Sender.  The steps of the two tasks and of the two consumers        *)
(* interleave in any order.                                                *)
(***************************************************************************)
InitTwo == InitWatch(Watches)

NextEventTwo(w) ==
    /\ nEvents[1] + nEvents[2] < MaxTwoEvents
    /\ NextEventFrom(w, Events)

NextTwo ==
    \E w \in Watches :
        \/ Connect(w)
        \/ ConnectFail(w)
        \/ NextEventTwo(w)
        \/ StreamEnd(w)
        \/ StreamError(w)
        \/ SendOk(w)
        \/ SendClosed(w)
        \/ Cancel(w)
        \/ ConsumerRecv(w)
        \/ ConsumerClose(w)

SpecTwo == InitTwo /\ [][NextTwo]_vars

(***************************************************************************)
(* The task on a watch source that reports any revision of WideSlices, the *)
(* receiver alive: the inputs of extract_ready_endpoints range over every  *)
(* combination of endpoint list, port table and port specifier.            *)
(***************************************************************************)
NextEventWide(w) ==
    /\ nEvents[w] < MaxExtractEvents
    /\ NextEventFrom(w, WideEvents)

NextExtract ==
    \E w \in Watches :
        \/ Connect(w)
        \/ NextEventWide(w)
        \/ SendOk(w)
        \/ ConsumerRecv(w)

SpecExtract == Init /\ [][NextExtract]_vars

(***************************************************************************)
(* The task on a watch source that reports the revisions of RangeSlices,   *)
(* the receiver alive.                                                     *)
(***************************************************************************)
NextEventRange(w) ==
    /\ nEvents[w] < MaxRangeEvents
    /\ NextEventFrom(w, RangeEvents)

NextRange ==
    \E w \in Watches :
        \/ Connect(w)
        \/ NextEventRange(w)
        \/ SendOk(w)
        \/ ConsumerRecv(w)

SpecRange == Init /\ [][NextRange]_vars

(***************************************************************************)
(* The caller's side: a configuration is built with DiscoveryConfig::new   *)
(* from any service name and port argument, .namespace(ns) may be applied  *)
(* to it any number of times, and one discover() call moves it into a new  *)
(* task.                                                                   *)
(***************************************************************************)
InitConfig ==
    /\ args \in {[w \in Watches |-> NewArgs(n[w], p[w])] :
                     n \in [Watches -> ServiceNames], p \in [Watches -> PortArgsWide]}
    /\ \A w \in Watches \ {1} : args[w] = NewArgs("web", U16(50051))
    /\ config = [w \in Watches |->
                    DiscoveryConfigNew(args[w].service_name, PortFrom(args[w].port))]
    /\ InitTask({})

\* config = config.namespace(ns), before the configuration is given away
Namespace(w) ==
    /\ pc[w] = "idle"
    /\ \E ns \in Namespaces :
          /\ config' = [config EXCEPT ![w] = DiscoveryConfigNamespace(@, ns)]
          /\ args' = [args EXCEPT ![w].namespace = Some(ns)]
    /\ UNCHANGED <<pc, result, exit, known, actions, change, queue, rxClosed,
                   sent, produced, built, nEvents, last, live, orderly, insertedBy>>

\* k8s.rs 155-164: discover(config, tx, build) spawns the task
Discover(w) ==
    /\ \A v \in Watches : pc[v] = "idle"
    /\ pc' = [pc EXCEPT ![w] = "connect"]
    /\ UNCHANGED <<args, config, result, exit, known, actions, change, queue,
                   rxClosed, sent, produced, built, nEvents, last, live, orderly,
                   insertedBy>>

NextEventConfig(w) ==
    /\ nEvents[w] < MaxConfigEvents
    /\ NextEventFrom(w, Events)

NextConfig ==
    \E w \in Watches :
        \/ Namespace(w)
        \/ Discover(w)
        \/ Connect(w)
        \/ NextEventConfig(w)
        \/ SendOk(w)
        \/ ConsumerRecv(w)

SpecConfig == InitConfig /\ [][NextConfig]_vars

(***************************************************************************)
(* Operators the properties are stated with.                               *)
(***************************************************************************)
\* The set a sequence of Insert/Remove actions leads to from S
RECURSIVE ApplyActions(_, _)
ApplyActions(acts, S) ==
    IF acts = <<>> THEN S
    ELSE ApplyActions(Tail(acts),
             IF Head(acts).kind = "Insert" THEN S \cup {Head(acts).addr}
             ELSE S \ {Head(acts).addr})

\* The action a Change message carries
ActionOf(c) == IF c.kind = "Insert" THEN Insert(c.key) ELSE Remove(c.key)
ActionsOf(changes) == [i \in 1..Len(changes) |-> ActionOf(changes[i])]

\* The set the consumer holds after the messages sent so far
SentApplied(w) == ApplyActions(ActionsOf(sent[w]), {})

\* The actions of the current batch not yet accepted by the queue
Pending(w) ==
    (IF change[w].some THEN <<ActionOf(change[w].v)>> ELSE <<>>) \o actions[w]

\* The union of the addresses of the latest revision of every live slice object
LiveUnion(w) ==
    UNION {extract_ready_endpoints(live[w][n].v, config[w].port) :
               n \in {m \in SliceNames : live[w][m].some}}

LastTag(w) == IF last[w].event.some THEN last[w].event.v.tag ELSE "none"
LastExtracted(w) == Extracted(last[w].event.v, config[w].port)
ElementsOf(seq) == {seq[i] : i \in DOMAIN seq}

(***************************************************************************)
(* C1.  Set equivalence: after any sequence of events the known set equals *)
(* the union of the ready addresses of the most recent revision of every   *)
(* slice object observed and not since deleted.  Stated for the streams a   *)
(* watcher can produce, where only an observed, live object is deleted.    *)
(* The code does not keep it: an Apply never removes an address its        *)
(* revision no longer lists.                                               *)
(***************************************************************************)
C1_KnownEqualsLiveUnion ==
    \A w \in Watches : orderly[w] => known[w] = LiveUnion(w)

(***************************************************************************)
(* C2.  No Insert for an address that was in the known set before the      *)
(* event, no Remove for an address that was not.                           *)
(***************************************************************************)
C2_NoRedundantAction ==
    \A w \in Watches : \A i \in DOMAIN last[w].actions :
        LET a == last[w].actions[i]
        IN  /\ a.kind = "Insert" => a.addr \notin last[w].known
            /\ a.kind = "Remove" => a.addr \in last[w].known

\* An Apply whose revision lists both known and new addresses was processed.
C2_Witness ==
    \E w \in Watches :
        /\ LastTag(w) = "Apply"
        /\ LastExtracted(w) \cap last[w].known # {}
        /\ LastExtracted(w) \ last[w].known # {}
        /\ last[w].actions # <<>>

(***************************************************************************)
(* C3.  As claimed: in every state the known set equals the Change         *)
(* messages sent so far applied to the empty set.  It fails: process_event *)
(* updates known for the whole batch before the first send.                *)
(***************************************************************************)
C3_KnownEqualsSentApplied == \A w \in Watches : known[w] = SentApplied(w)

(***************************************************************************)
(* C3, amended.  In every state the known set equals the set obtained by   *)
(* applying to the empty set the messages sent so far followed by the      *)
(* actions of the current batch not yet sent; these together are exactly   *)
(* the actions process_event has returned.                                 *)
(***************************************************************************)
C3_KnownEqualsSentAndPending ==
    \A w \in Watches :
        /\ known[w] = ApplyActions(ActionsOf(sent[w]) \o Pending(w), {})
        /\ ActionsOf(sent[w]) \o Pending(w) = produced[w]

\* The task is suspended on a full queue, or has stopped on a closed one,
\* with known ahead of what it has sent.
C3_Witness ==
    \E w \in Watches :
        /\ known[w] # SentApplied(w)
        /\ \/ pc[w] = "send" /\ Len(queue[w]) = QueueCapacity /\ ~rxClosed[w]
           \/ exit[w] = "closed"
        /\ sent[w] # <<>>

(***************************************************************************)
(* C4.  For an Apply or InitApply of revision r with known set K before:   *)
(* the batch is exactly one Insert(a) for each a in extract(r) \ K, the    *)
(* known set afterwards is K \cup extract(r), and the two tags give the    *)
(* same result.                                                            *)
(***************************************************************************)
C4_ApplyInsertsNew ==
    \A w \in Watches :
        LastTag(w) \in {"Apply", "InitApply"} =>
            LET cur == LastExtracted(w)
                K == last[w].known
                s == last[w].event.v.slice
            IN  /\ ElementsOf(last[w].actions) = {Insert(a) : a \in cur \ K}
                /\ Len(last[w].actions) = Cardinality(cur \ K)
                /\ known[w] = K \cup cur
                /\ \A order \in Orders(cur) :
                       process_event(ApplyEv(s), K, order)
                           = process_event(InitApplyEv(s), K, order)

\* An InitApply added new addresses to a known set that kept its others.
C4_Witness ==
    \E w \in Watches :
        /\ LastTag(w) = "InitApply"
        /\ LastExtracted(w) \ last[w].known # {}
        /\ last[w].known \ LastExtracted(w) # {}
        /\ Len(last[w].actions) = 2

(***************************************************************************)
(* C5.  For a Delete of revision r with known set K before: the batch is   *)
(* exactly one Remove(a) for each a in extract(r) \cap K and the known set *)
(* afterwards is K \ extract(r).                                           *)
(***************************************************************************)
C5_DeleteRemovesKnown ==
    \A w \in Watches :
        LastTag(w) = "Delete" =>
            LET rem == LastExtracted(w)
                K == last[w].known
            IN  /\ ElementsOf(last[w].actions) = {Remove(a) : a \in rem \cap K}
                /\ Len(last[w].actions) = Cardinality(rem \cap K)
                /\ known[w] = K \ rem

\* A Delete listed a known address, an unknown one, and left one in known.
C5_Witness ==
    \E w \in Watches :
        /\ LastTag(w) = "Delete"
        /\ LastExtracted(w) \cap last[w].known # {}
        /\ LastExtracted(w) \ last[w].known # {}
        /\ last[w].known \ LastExtracted(w) # {}
        /\ known[w] # {}

(***************************************************************************)
(* C6.  Idempotence of Apply: the same Apply event delivered twice in a    *)
(* row gives an empty batch the second time and leaves the known set as    *)
(* the first delivery left it.                                             *)
(***************************************************************************)
C6_ApplyIdempotent ==
    \A w \in Watches :
        (LastTag(w) = "Apply" /\ last[w].prev = last[w].event) =>
            /\ last[w].actions = <<>>
            /\ known[w] = last[w].known

\* The second of two identical Applies, the first of which inserted two
\* addresses.
C6_Witness ==
    \E w \in Watches :
        /\ LastTag(w) = "Apply"
        /\ last[w].prev = last[w].event
        /\ nEvents[w] = 2
        /\ Len(produced[w]) = 2

(***************************************************************************)
(* C7.  Init and InitDone leave the known set unchanged, give an empty     *)
(* batch, and no Change message is sent for them.                          *)
(***************************************************************************)
C7_InitIsNoOp ==
    \A w \in Watches :
        LastTag(w) \in {"Init", "InitDone"} =>
            /\ last[w].actions = <<>>
            /\ known[w] = last[w].known
            /\ Len(sent[w]) = last[w].nsent
            /\ ~change[w].some
            /\ pc[w] # "send"

\* An Init arrived with a non-empty known set.
C7_Witness ==
    \E w \in Watches :
        /\ LastTag(w) = "Init"
        /\ last[w].known # {}
        /\ sent[w] # <<>>

(***************************************************************************)
(* C8.  Emission order: the messages enqueued are, in order, the messages  *)
(* of the first actions process_event returned, and every step enqueues at *)
(* most one more.                                                          *)
(***************************************************************************)
SentIsPrefix(w) ==
    /\ Len(sent[w]) <= Len(produced[w])
    /\ \A i \in DOMAIN sent[w] : sent[w][i] = ToChange(produced[w][i])

C8_EmissionOrder ==
    /\ \A w \in Watches : SentIsPrefix(w)
    /\ [][\A w \in Watches :
            /\ SentIsPrefix(w)'
            /\ \/ sent'[w] = sent[w]
               \/ /\ Len(sent'[w]) = Len(sent[w]) + 1
                  /\ SubSeq(sent'[w], 1, Len(sent[w])) = sent[w]]_vars

\* The task is in the middle of a later batch: messages of two events are
\* sent and the batch's next message awaits its send.
C8_Witness ==
    \E w \in Watches :
        /\ pc[w] = "send"
        /\ nEvents[w] >= 2
        /\ Len(sent[w]) >= 3
        /\ Len(sent[w]) > last[w].nsent
        /\ change[w].some

(***************************************************************************)
(* C9.  Backpressure: an event is taken only when every action returned so *)
(* far has been accepted by the queue; while the queue is full the task    *)
(* stays at its send, takes no event and keeps its pending actions; the    *)
(* queue never holds more than its capacity.                               *)
(***************************************************************************)
Blocked(w) == pc[w] = "send" /\ Len(queue[w]) = QueueCapacity /\ ~rxClosed[w]

C9_Backpressure ==
    /\ \A w \in Watches : Len(queue[w]) <= QueueCapacity
    /\ [][\A w \in Watches :
            /\ Len(queue'[w]) <= QueueCapacity
            /\ nEvents'[w] # nEvents[w] =>
                   /\ pc[w] = "next"
                   /\ ActionsOf(sent[w]) = produced[w]
                   /\ Pending(w) = <<>>
            /\ Blocked(w) =>
                   /\ pc'[w] \in {"send", "cancelled"}
                   /\ nEvents'[w] = nEvents[w]
                   /\ sent'[w] = sent[w]
                   /\ Pending(w)' = Pending(w)
                   /\ produced'[w] = produced[w]]_vars

\* The task is blocked on a full queue while the stream has more events.
C9_Witness ==
    \E w \in Watches :
        /\ Blocked(w)
        /\ nEvents[w] < MaxEvents
        /\ actions[w] # <<>>

(***************************************************************************)
(* C10.  Consumer closure is a terminal stop: a task at its send with the  *)
(* receiver gone can only return Ok(()) (or be cancelled); it sends        *)
(* nothing more, and once returned it takes no further event.              *)
(***************************************************************************)
C10_ClosureStops ==
    [][\A w \in Watches :
          /\ (pc[w] = "send" /\ rxClosed[w]) =>
                 /\ sent'[w] = sent[w]
                 /\ nEvents'[w] = nEvents[w]
                 /\ pc'[w] \notin {"send", "cancelled"} =>
                        /\ pc'[w] = "returned"
                        /\ result'[w] = "Ok"
                        /\ exit'[w] = "closed"
          /\ exit'[w] = "closed" => (pc'[w] = "returned" /\ result'[w] = "Ok")
          /\ exit[w] = "closed" =>
                 /\ exit'[w] = "closed"
                 /\ sent'[w] = sent[w]
                 /\ nEvents'[w] = nEvents[w]
                 /\ known'[w] = known[w]]_vars

\* The task stopped on a closed queue with actions of its batch unsent and
\* events left in the stream.
C10_Witness ==
    \E w \in Watches :
        /\ exit[w] = "closed"
        /\ actions[w] # <<>>
        /\ nEvents[w] < MaxEvents

(***************************************************************************)
(* C11.  Watch-source failure is fatal: the stream's error makes           *)
(* discovery_loop return Err from its try_next, with every action returned *)
(* so far enqueued; the task then takes no event and does not go back to   *)
(* its loop by itself; a run started again begins with an empty known set. *)
(***************************************************************************)
C11_StreamErrorFatal ==
    [][\A w \in Watches :
          /\ (exit'[w] = "stream_err" /\ exit[w] # "stream_err") =>
                 /\ pc[w] = "next"
                 /\ pc'[w] = "returned"
                 /\ result'[w] = "Err"
                 /\ ActionsOf(sent[w]) = produced[w]
                 /\ Pending(w) = <<>>
          /\ exit[w] = "stream_err" =>
                 /\ nEvents'[w] = nEvents[w]
                 /\ sent'[w] = sent[w]
                 /\ produced'[w] = produced[w]
                 /\ known'[w] = known[w]
                 /\ \/ pc'[w] = "returned" /\ exit'[w] = "stream_err"
                    \/ pc'[w] = "connect" /\ exit'[w] = "none"
          /\ (pc[w] = "connect" /\ pc'[w] = "next") => known'[w] = {}]_vars

\* A run started again after an error awaits its first event with an empty
\* known set, while the messages of the failed run had inserted addresses.
C11_Witness ==
    \E w \in Watches :
        /\ pc[w] = "next"
        /\ known[w] = {}
        /\ SentApplied(w) # {}
        /\ nEvents[w] > 0

(***************************************************************************)
(* C12.  No compensating diff on teardown: the step that ends a task       *)
(* sends nothing and an ended task sends nothing; every message sent is    *)
(* the next action process_event returned, and process_event returns a     *)
(* Remove only for a Delete event.                                         *)
(***************************************************************************)
Ended(w) == pc[w] \in {"returned", "cancelled"}

C12_NoCompensatingDiff ==
    [][\A w \in Watches :
          /\ (Ended(w) \/ Ended(w)') => (sent'[w] = sent[w] /\ Len(queue'[w]) <= Len(queue[w]))
          /\ Ended(w) => (Ended(w)' /\ produced'[w] = produced[w])
          /\ sent'[w] # sent[w] =>
                 LET i == Len(sent[w]) + 1
                 IN  /\ Len(sent'[w]) = i
                     /\ i <= Len(produced[w])
                     /\ sent'[w][i] = ToChange(produced[w][i])
          /\ \A i \in (Len(produced[w]) + 1)..Len(produced'[w]) :
                 produced'[w][i].kind = "Remove" => last'[w].event.v.tag = "Delete"]_vars

\* A task has ended with addresses in its known set, after it had sent a
\* Remove.
C12_Witness ==
    \E w \in Watches :
        /\ Ended(w)
        /\ known[w] # {}
        /\ \E i \in DOMAIN sent[w] : sent[w][i].kind = "Remove"

(***************************************************************************)
(* C13.  Orderly end of stream: when the event sequence ends without error *)
(* and the consumer keeps receiving, every spawned task eventually has     *)
(* returned Ok(()) through the end of the while loop, and by then it has   *)
(* sent one message for every action of every event it received; it stays  *)
(* so.                                                                     *)
(***************************************************************************)
C13_OrderlyEnd ==
    <>[](\A w \in Watches :
            pc[w] # "idle" =>
                /\ pc[w] = "returned"
                /\ exit[w] = "stream_end"
                /\ result[w] = "Ok"
                /\ ActionsOf(sent[w]) = produced[w]
                /\ Pending(w) = <<>>)

\* A task returned at the end of its stream after events that produced
\* several actions, all sent.
C13_Witness ==
    \E w \in Watches :
        /\ exit[w] = "stream_end"
        /\ result[w] = "Ok"
        /\ nEvents[w] >= 2
        /\ Len(produced[w]) >= 3
        /\ ActionsOf(sent[w]) = produced[w]

(***************************************************************************)
(* C14.  Independent watches are isolated: in every step of two tasks      *)
(* running side by side, a task's known set changes only in that task's    *)
(* own event step, and a step in which one task processes an event leaves  *)
(* the other task's known set, queue, sent messages, pending actions and   *)
(* position unchanged.                                                     *)
(***************************************************************************)
TaskState(w) ==
    <<pc[w], result[w], exit[w], known[w], actions[w], change[w], queue[w],
      rxClosed[w], sent[w], produced[w], built[w], nEvents[w]>>

C14_WatchesIsolated ==
    [][\A w \in Watches : \A v \in Watches \ {w} :
          /\ known'[w] # known[w] =>
                 /\ pc[w] = "next"
                 /\ nEvents'[w] = nEvents[w] + 1
                 /\ nEvents'[v] = nEvents[v]
          /\ nEvents'[w] # nEvents[w] =>
                 /\ known'[v] = known[v]
                 /\ queue'[v] = queue[v]
                 /\ TaskState(v)' = TaskState(v)]_vars

\* Both tasks run, hold different non-empty known sets, and both queues
\* hold messages.
C14_Witness ==
    /\ \A w \in Watches : known[w] # {} /\ queue[w] # <<>>
    /\ known[1] # known[2]

(***************************************************************************)
(* C15.  Overlapping objects: on a stream where every Delete is of a live  *)
(* object, every address removed from known by the Delete of an object     *)
(* whose revision was applied just before was most recently inserted by    *)
(* an event of that very object.                                           *)
(***************************************************************************)
C15_RemovedOnlyByInserter ==
    \A w \in Watches :
        (/\ orderly[w]
         /\ LastTag(w) = "Delete"
         /\ last[w].prev.some
         /\ last[w].prev.v = ApplyEv(last[w].event.v.slice)) =>
            \A i \in DOMAIN last[w].actions :
                LET a == last[w].actions[i].addr
                IN  /\ a \in DOMAIN insertedBy[w]
                    /\ insertedBy[w][a] = last[w].event.v.slice.name

(***************************************************************************)
(* C16.  The build callback: the calls of build made so far are, in order, *)
(* the addresses of the Insert actions among the messages sent and the     *)
(* message being sent, one call each and none for a Remove; each of these  *)
(* messages is made from the next action process_event returned, keyed by  *)
(* that action's address, an Insert carrying build(address) and a Remove   *)
(* carrying nothing else.                                                  *)
(***************************************************************************)
\* The messages the for loop has constructed: those sent and the one at the
\* send it is suspended at.
Offered(w) ==
    sent[w] \o (IF change[w].some THEN <<change[w].v>> ELSE <<>>)

RECURSIVE InsertKeys(_)
InsertKeys(changes) ==
    IF changes = <<>> THEN <<>>
    ELSE (IF Head(changes).kind = "Insert" THEN <<Head(changes).key>> ELSE <<>>)
             \o InsertKeys(Tail(changes))

C16_BuildOncePerInsert ==
    \A w \in Watches :
        /\ built[w] = InsertKeys(Offered(w))
        /\ Len(Offered(w)) <= Len(produced[w])
        /\ \A i \in DOMAIN Offered(w) :
               LET c == Offered(w)[i]
                   a == produced[w][i]
               IN  /\ c.kind = a.kind
                   /\ c.key = a.addr
                   /\ c.kind = "Insert" =>
                          /\ DOMAIN c = {"kind", "key", "endpoint"}
                          /\ c.endpoint = Build(a.addr)
                   /\ c.kind = "Remove" => DOMAIN c = {"kind", "key"}

\* Inserts and a Remove have been sent, and build has been called more than
\* once but fewer times than there are messages.
C16_Witness ==
    \E w \in Watches :
        /\ Len(built[w]) >= 2
        /\ Len(built[w]) < Len(sent[w])
        /\ \E i \in DOMAIN sent[w] : sent[w][i].kind = "Remove"

(***************************************************************************)
(* C17.  Named-port miss: when the configured port is a name and the       *)
(* revision of an Apply or Delete event has no port table, or a table with *)
(* no entry of that name, extraction gives the empty set whatever the      *)
(* endpoints are, the event's batch is empty, the known set is as before   *)
(* the event, nothing is sent for it, and the task goes on to the next     *)
(* event without an error.                                                 *)
(***************************************************************************)
LastSlice(w) == last[w].event.v.slice

HasRevision(w) == LastTag(w) \in {"Apply", "InitApply", "Delete"}

NamedPortMiss(slice, port) ==
    /\ port.kind = "Name"
    /\ \/ ~slice.ports.some
       \/ \A i \in DOMAIN slice.ports.v : slice.ports.v[i].name # Some(port.name)

C17_NamedPortMiss ==
    \A w \in Watches :
        (HasRevision(w) /\ NamedPortMiss(LastSlice(w), config[w].port)) =>
            /\ extract_ready_endpoints(LastSlice(w), config[w].port) = {}
            /\ last[w].actions = <<>>
            /\ known[w] = last[w].known
            /\ Len(sent[w]) = last[w].nsent
            /\ pc[w] = "next"
            /\ result[w] = "none"

\* A revision with ready, parsable endpoints and a port table that lacks the
\* name arrived while the known set was not empty.
C17_Witness ==
    \E w \in Watches :
        /\ HasRevision(w)
        /\ NamedPortMiss(LastSlice(w), config[w].port)
        /\ LastSlice(w).ports.some
        /\ LastSlice(w).ports.v # <<>>
        /\ extract_ready_endpoints(LastSlice(w), PortNumber(50051)) # {}
        /\ known[w] # {}

(***************************************************************************)
(* C18.  Readiness default: for the revision of every Apply or Delete      *)
(* event and the configured port, extraction gives the same set as for the *)
(* revision in which every entry without a readiness value (conditions     *)
(* absent, or ready unset) has ready explicitly true, and the same set as  *)
(* for the revision without its entries whose ready is explicitly false;   *)
(* an Apply leaves the known set as the known set before joined with that  *)
(* set.                                                                    *)
(***************************************************************************)
HasNoReadiness(ep) == ~ep.conditions.some \/ ~ep.conditions.v.ready.some

ExplicitlyFalse(ep) ==
    ep.conditions.some /\ ep.conditions.v.ready = Some(FALSE)

\* The revision with ready: Some(true) written into every entry that has no
\* readiness value
WithExplicitReady(slice) ==
    [slice EXCEPT !.endpoints =
        [i \in DOMAIN @ |->
            IF HasNoReadiness(@[i]) THEN MakeEndpoint(@[i].addresses, Some(TRUE))
            ELSE @[i]]]

RECURSIVE DropFalse(_)
DropFalse(endpoints) ==
    IF endpoints = <<>> THEN <<>>
    ELSE (IF ExplicitlyFalse(Head(endpoints)) THEN <<>> ELSE <<Head(endpoints)>>)
             \o DropFalse(Tail(endpoints))

\* The revision without the entries whose ready is explicitly false, every
\* other entry with ready explicitly true
OnlyReady(slice) ==
    WithExplicitReady([slice EXCEPT !.endpoints = DropFalse(@)])

C18_ReadinessDefault ==
    \A w \in Watches :
        HasRevision(w) =>
            LET s == LastSlice(w)
                p == config[w].port
            IN  /\ extract_ready_endpoints(s, p)
                       = extract_ready_endpoints(WithExplicitReady(s), p)
                /\ extract_ready_endpoints(s, p)
                       = extract_ready_endpoints(OnlyReady(s), p)
                /\ \A i \in DOMAIN s.endpoints :
                       IsReady(s.endpoints[i]) <=> ~ExplicitlyFalse(s.endpoints[i])
                /\ LastTag(w) = "Apply" =>
                       known[w] = last[w].known
                                     \cup extract_ready_endpoints(OnlyReady(s), p)

\* An Apply whose revision has an entry with conditions absent, one with
\* ready unset and one with ready false put the addresses of the first two,
\* and not that of the third, into the known set.
C18_Witness ==
    \E w \in Watches :
        /\ LastTag(w) = "Apply"
        /\ \E i, j, k \in DOMAIN LastSlice(w).endpoints :
               /\ ~LastSlice(w).endpoints[i].conditions.some
               /\ LastSlice(w).endpoints[j].conditions.some
               /\ ~LastSlice(w).endpoints[j].conditions.v.ready.some
               /\ ExplicitlyFalse(LastSlice(w).endpoints[k])
        /\ Cardinality(known[w]) = 2
        /\ Len(last[w].actions) = 2

(***************************************************************************)
(* C19.  Invalid-address tolerance: for the revision of every Apply or     *)
(* Delete event whose port resolves to n, extraction returns exactly the   *)
(* addresses (ip, n) for the address strings of its ready entries that     *)
(* parse as an IP literal; a string that does not parse contributes        *)
(* nothing, takes nothing away, and the task does not fail on it.          *)
(***************************************************************************)
\* The positions <<entry, string>> of the address strings of ready entries
\* that parse
ParsablePositions(slice) ==
    {ij \in UNION {{<<i, j>> : j \in DOMAIN slice.endpoints[i].addresses} :
                      i \in DOMAIN slice.endpoints} :
        /\ ~ExplicitlyFalse(slice.endpoints[ij[1]])
        /\ ParseIpAddr(slice.endpoints[ij[1]].addresses[ij[2]]).some}

HasInvalidBeforeValid(slice) ==
    \E i \in DOMAIN slice.endpoints :
        \E j, k \in DOMAIN slice.endpoints[i].addresses :
            /\ j < k
            /\ ~ExplicitlyFalse(slice.endpoints[i])
            /\ ~ParseIpAddr(slice.endpoints[i].addresses[j]).some
            /\ ParseIpAddr(slice.endpoints[i].addresses[k]).some

C19_InvalidAddressTolerance ==
    \A w \in Watches :
        HasRevision(w) =>
            LET s == LastSlice(w)
                n == ResolvePort(s, config[w].port)
                expected ==
                    {SocketAddr(ParseIpAddr(s.endpoints[ij[1]].addresses[ij[2]]).v, n.v) :
                         ij \in ParsablePositions(s)}
            IN  /\ n.some => extract_ready_endpoints(s, config[w].port) = expected
                /\ (n.some /\ LastTag(w) = "Apply") =>
                       known[w] = last[w].known \cup expected
                /\ (n.some /\ LastTag(w) = "Delete") =>
                       known[w] = last[w].known \ expected
                /\ result[w] # "Err"
                /\ pc[w] \in {"next", "send"}

\* An Apply whose revision has an unparsable string before a parsable one in
\* the same entry, and another entry, put both parsable addresses into the
\* known set.
C19_Witness ==
    \E w \in Watches :
        /\ LastTag(w) = "Apply"
        /\ HasInvalidBeforeValid(LastSlice(w))
        /\ Len(LastSlice(w).endpoints) >= 2
        /\ last[w].known = {}
        /\ Cardinality(known[w]) = 2

(***************************************************************************)
(* C20.  Port resolution is per revision.  For the revision of every Apply *)
(* or Delete event: with a numeric specifier n every extracted address     *)
(* carries n and the port table makes no difference; with a named          *)
(* specifier every extracted address carries the number of the entry of    *)
(* that revision's own table that has the name; all addresses of one       *)
(* revision carry the same port; and when this revision and the one of the *)
(* event before map the name to different numbers, the two extracted sets  *)
(* share no address, so an Apply of the second inserts every address it    *)
(* lists.                                                                  *)
(***************************************************************************)
\* The entries of the revision's port table that have the name
NamedEntries(slice, name) ==
    IF slice.ports.some
    THEN {i \in DOMAIN slice.ports.v : slice.ports.v[i].name = Some(name)}
    ELSE {}

PortsOf(addrs) == {a.port : a \in addrs}

C20_PortPerRevision ==
    \A w \in Watches :
        HasRevision(w) =>
            LET s == LastSlice(w)
                p == config[w].port
                cur == extract_ready_endpoints(s, p)
            IN  /\ Cardinality(PortsOf(cur)) <= 1
                /\ p.kind = "Number" =>
                       /\ ResolvePort(s, p) = Some(p.n)
                       /\ PortsOf(cur) \subseteq {p.n}
                       /\ \A t \in PortTables :
                              extract_ready_endpoints([s EXCEPT !.ports = t], p) = cur
                /\ p.kind = "Name" =>
                       /\ \A i \in NamedEntries(s, p.name) :
                              ResolvePort(s, p) = s.ports.v[i].port
                       /\ \A a \in cur : \E i \in NamedEntries(s, p.name) :
                              Some(a.port) = s.ports.v[i].port
                /\ (last[w].prev.some /\ last[w].prev.v.tag = "Apply") =>
                       LET r == last[w].prev.v.slice
                           before == extract_ready_endpoints(r, p)
                       IN  (/\ ResolvePort(r, p).some
                            /\ ResolvePort(s, p).some
                            /\ ResolvePort(r, p) # ResolvePort(s, p)) =>
                               /\ before \cap cur = {}
                               /\ \A a \in before : \A b \in cur : a.port # b.port
                               /\ LastTag(w) = "Apply" =>
                                      ElementsOf(last[w].actions)
                                          = {Insert(b) : b \in cur \ last[w].known}

\* Two Applies of revisions with the same endpoints whose tables map the
\* name to different numbers, the second table listing another entry first:
\* the known set holds every IP under both numbers.
C20_Witness ==
    \E w \in Watches :
        /\ config[w].port.kind = "Name"
        /\ LastTag(w) = "Apply"
        /\ last[w].prev.some
        /\ last[w].prev.v.tag = "Apply"
        /\ last[w].prev.v.slice.endpoints = LastSlice(w).endpoints
        /\ LastSlice(w).ports.some
        /\ Len(LastSlice(w).ports.v) = 2
        /\ PortsOf(last[w].known) = {8080}
        /\ PortsOf(LastExtracted(w)) = {9090}
        /\ Cardinality(known[w]) = 4
        /\ {a.ip : a \in last[w].known} = {a.ip : a \in LastExtracted(w)}

(***************************************************************************)
(* C21.  DiscoveryConfig::new(name, port) gives the service name as given, *)
(* Port::Number(n) for a u16 n, Port::Name(s) for a &str or String s, and  *)
(* no namespace; .namespace(ns) sets the namespace to ns and changes       *)
(* neither service_name nor port; the task is given the configuration as   *)
(* built.                                                                  *)
(***************************************************************************)
C21_ConfigBuilders ==
    /\ \A w \in Watches :
           /\ DOMAIN config[w] = {"service_name", "namespace", "port"}
           /\ config[w].service_name = args[w].service_name
           /\ config[w].namespace = args[w].namespace
           /\ args[w].port.ty = "u16" =>
                  config[w].port = [kind |-> "Number", n |-> args[w].port.n, name |-> ""]
           /\ args[w].port.ty \in {"&str", "String"} =>
                  config[w].port = [kind |-> "Name", n |-> 0, name |-> args[w].port.s]
    /\ [][\A w \in Watches :
            config'[w] # config[w] =>
                /\ pc[w] = "idle"
                /\ config'[w].namespace \in {Some(ns) : ns \in Namespaces}
                /\ config'[w].service_name = config[w].service_name
                /\ config'[w].port = config[w].port]_vars

\* A task runs with a configuration built from a String port argument and
\* with a namespace set.
C21_Witness ==
    \E w \in Watches :
        /\ pc[w] = "next"
        /\ nEvents[w] > 0
        /\ args[w].port = StringOf("http")
        /\ config[w] = [service_name |-> "api", namespace |-> Some("prod"),
                        port |-> [kind |-> "Name", n |-> 0, name |-> "http"]]

(***************************************************************************)
(* C22.  Per-key alternation: for every address, the messages a task has   *)
(* sent with that key are Insert, Remove, Insert, ... in turn, the first   *)
(* an Insert; the same holds of the actions process_event has returned.    *)
(***************************************************************************)
\* The kinds of the messages of `changes` that have the key, in order
RECURSIVE KindsFor(_, _)
KindsFor(changes, key) ==
    IF changes = <<>> THEN <<>>
    ELSE (IF Head(changes).key = key THEN <<Head(changes).kind>> ELSE <<>>)
             \o KindsFor(Tail(changes), key)

Alternates(kinds) ==
    \A i \in DOMAIN kinds :
        kinds[i] = (IF i % 2 = 1 THEN "Insert" ELSE "Remove")

KeysOf(changes) == {changes[i].key : i \in DOMAIN changes}

ProducedChanges(w) == [i \in DOMAIN produced[w] |-> ToChange(produced[w][i])]

C22_PerKeyAlternation ==
    \A w \in Watches :
        /\ \A key \in KeysOf(sent[w]) : Alternates(KindsFor(sent[w], key))
        /\ \A key \in KeysOf(ProducedChanges(w)) :
               Alternates(KindsFor(ProducedChanges(w), key))

\* An address has been inserted, removed and inserted again, with messages
\* of another address in between.
C22_Witness ==
    \E w \in Watches : \E key \in KeysOf(sent[w]) :
        /\ KindsFor(sent[w], key) = <<"Insert", "Remove", "Insert">>
        /\ Len(sent[w]) > 3

(***************************************************************************)
(* C23.  Quiescent consistency: whenever a task is suspended at try_next,  *)
(* no action is pending, every action returned so far has been sent, and   *)
(* the known set equals the messages sent so far applied in order to the   *)
(* empty set.                                                              *)
(***************************************************************************)
C23_QuiescentConsistency ==
    \A w \in Watches :
        pc[w] = "next" =>
            /\ Pending(w) = <<>>
            /\ ActionsOf(sent[w]) = produced[w]
            /\ known[w] = SentApplied(w)

\* A task awaits its third event with a non-empty known set after sending
\* Inserts and a Remove.
C23_Witness ==
    \E w \in Watches :
        /\ pc[w] = "next"
        /\ nEvents[w] = 2
        /\ known[w] # {}
        /\ Len(sent[w]) >= 3
        /\ \E i \in DOMAIN sent[w] : sent[w][i].kind = "Remove"

ReadyIps(slice) ==
    {ParseIpAddr(slice.endpoints[ij[1]].addresses[ij[2]]).v :
         ij \in ParsablePositions(slice)}

C25_DeleteOnlyOwnSnapshot ==
    \A w \in Watches :
        LastTag(w) = "Delete" =>
            \A a \in last[w].known :
                /\ a \notin LastExtracted(w) =>
                       /\ a \in known[w]
                       /\ \A i \in DOMAIN last[w].actions : last[w].actions[i].addr # a
                /\ a \notin LastExtracted(w) <=>
                       \/ ResolvePort(LastSlice(w), config[w].port) # Some(a.port)
                       \/ a.ip \notin ReadyIps(LastSlice(w))

\* A Delete of the object applied just before, with the same endpoints and
\* the name mapped to another number: the addresses the Apply inserted are
\* all still in the known set.
C25_Witness ==
    \E w \in Watches :
        /\ LastTag(w) = "Delete"
        /\ last[w].prev.some
        /\ last[w].prev.v.tag = "Apply"
        /\ last[w].prev.v.slice.name = LastSlice(w).name
        /\ last[w].prev.v.slice.endpoints = LastSlice(w).endpoints
        /\ LastExtracted(w) # {}
        /\ last[w].known # {}
        /\ last[w].actions = <<>>
        /\ known[w] = last[w].known

(***************************************************************************)
(* C26.  Delivery liveness: with a consumer that never closes the queue    *)
(* and keeps receiving, a task suspended at a send eventually is back at   *)
(* try_next with every action process_event has returned sent.             *)
(***************************************************************************)
C26_DeliveryLiveness ==
    \A w \in Watches :
        (pc[w] = "send") ~>
            (pc[w] = "next" /\ Pending(w) = <<>> /\ ActionsOf(sent[w]) = produced[w])

\* A task waits at a send on a full queue with a further action of the
\* batch behind it.
C26_Witness ==
    \E w \in Watches :
        /\ Blocked(w)
        /\ actions[w] # <<>>
        /\ nEvents[w] >= 2

(***************************************************************************)
(* C27.  Named-port range check: when the entry of the revision's port     *)
(* table that has the configured name has no number, a negative number or  *)
(* a number above 65535, extraction gives the empty set, the event's batch *)
(* is empty, the known set is unchanged and the task goes on without an    *)
(* error; when the number is within 0..65535 every ready, parsable IP is   *)
(* extracted with exactly that number.                                     *)
(***************************************************************************)
C27_NamedPortRange ==
    \A w \in Watches :
        (/\ HasRevision(w)
         /\ config[w].port.kind = "Name"
         /\ NamedEntries(LastSlice(w), config[w].port.name) # {}) =>
            LET s == LastSlice(w)
                entries == NamedEntries(s, config[w].port.name)
                first == CHOOSE i \in entries : \A j \in entries : i <= j
                number == s.ports.v[first].port
                inRange == number.some /\ number.v >= 0 /\ number.v <= 65535
            IN  /\ ~inRange =>
                       /\ LastExtracted(w) = {}
                       /\ last[w].actions = <<>>
                       /\ known[w] = last[w].known
                       /\ pc[w] = "next"
                       /\ result[w] = "none"
                /\ inRange =>
                       LastExtracted(w) = {SocketAddr(ip, number.v) : ip \in ReadyIps(s)}

\* An Apply whose table gives the name the number 73616 (8080 modulo 2^16)
\* arrived with addresses at 8080 in the known set, and its revision has
\* ready, parsable addresses.
C27_Witness ==
    \E w \in Watches :
        /\ LastTag(w) = "Apply"
        /\ config[w].port.kind = "Name"
        /\ LastSlice(w).ports = GrpcAt(73616)
        /\ ReadyIps(LastSlice(w)) # {}
        /\ PortsOf(known[w]) = {8080}
        /\ last[w].actions = <<>>

=============================================================================
